---------------------------- MODULE Spec2Model ----------------------------
(***************************************************************************)
(* Model of the cypress-status-map poller (scripts/fetch-status.mjs) and   *)
(* its publisher (scripts/post_instagraph.mjs).                            *)
(*                                                                         *)
(* Instants are whole seconds since 1970-01-01T00:00:00Z (the value of     *)
(* Date.getTime() divided by 1000): getTzParts reads an instant to the     *)
(* second, and every comparison of the program is linear in the unit.      *)
(* A timestamp string (toISOString) is the tuple of its UTC calendar       *)
(* fields, and Date.parse computes the instant back from the fields; a     *)
(* string that is no timestamp parses to NaN.                              *)
(*                                                                         *)
(* A text (a status string, an entity name, a date key) is the sequence    *)
(* of its characters, each a one-character string; characters are ordered  *)
(* by their UTF-16 code unit.                                              *)
(***************************************************************************)
EXTENDS Integers, Sequences, FiniteSets, TLC

VARIABLES
    now,          \* the wall clock: the instant of the latest new Date()
    statusFile,   \* status.json
    historyFile,  \* history.json
    eventFile,    \* event.json
    run,          \* the locals of the latest run of fetch-status.mjs
    eventLog,     \* every write of event.json by fetch-status.mjs, in order
    polls,        \* number of runs that passed the gate and fetched
    scenario,     \* which set of run instants the behaviour draws from
    pub,          \* the run of post_instagraph.mjs in progress, or the latest one
    publishLog,   \* the key of the event of every media_publish call that succeeded
    call          \* the pending or finished call of a function under test

vars == <<now, statusFile, historyFile, eventFile, run, eventLog, polls, scenario,
          pub, publishLog, call>>

progVars == <<now, statusFile, historyFile, eventFile, run, eventLog, polls, scenario,
              pub, publishLog>>

---------------------------------------------------------------------------
(* Calendar arithmetic of Date.UTC and of the date formatters.             *)

\* Days from 1970-01-01 to the civil date y-m-d (proleptic Gregorian).
DaysFromCivil(y, m, d) ==
    LET yy  == IF m <= 2 THEN y - 1 ELSE y
        era == yy \div 400
        yoe == yy - era * 400
        mp  == IF m > 2 THEN m - 3 ELSE m + 9
        doy == (153 * mp + 2) \div 5 + d - 1
        doe == yoe * 365 + yoe \div 4 - yoe \div 100 + doy
    IN  era * 146097 + doe - 719468

\* The civil date of day number z, as [year, month, day].
CivilFromDays(z) ==
    LET zz  == z + 719468
        era == zz \div 146097
        doe == zz - era * 146097
        yoe == (doe - doe \div 1460 + doe \div 36524 - doe \div 146096) \div 365
        doy == doe - (365 * yoe + yoe \div 4 - yoe \div 100)
        mp  == (5 * doy + 2) \div 153
        d   == doy - (153 * mp + 2) \div 5 + 1
        m   == IF mp < 10 THEN mp + 3 ELSE mp - 9
        y   == yoe + era * 400
    IN  [year |-> IF m <= 2 THEN y + 1 ELSE y, month |-> m, day |-> d]

\* Date.UTC(year, month - 1, day, hour, minute, second) / 1000. Fields past
\* their range carry into the next unit, as in Date.UTC.
DateUTC(year, month, day, hour, minute, second) ==
    DaysFromCivil(year, month, day) * 86400
        + hour * 3600 + minute * 60 + second

\* The calendar fields of civil date c at rem seconds after midnight.
PartsOf(c, rem) ==
    [year |-> c.year, month |-> c.month, day |-> c.day,
     hour |-> rem \div 3600,
     minute |-> (rem % 3600) \div 60,
     second |-> rem % 60]

\* The UTC calendar fields of instant t.
UtcParts(t) == PartsOf(CivilFromDays(t \div 86400), t % 86400)

---------------------------------------------------------------------------
(* The time zone America/Vancouver, as Intl.DateTimeFormat resolves it for *)
(* the modelled period (2024-11-03 .. 2026-03-08): daylight time (UTC-7)   *)
(* from 2025-03-09T10:00Z (02:00 PST) until 2025-11-02T09:00Z (02:00 PDT), *)
(* standard time (UTC-8) otherwise.                                        *)

DstStart == 1741514400
DstEnd   == 1762074000

PstOffsetMinutes == -480
PdtOffsetMinutes == -420

\* UTC offset of the zone at instant t, in minutes.
ZoneOffsetMinutes(t) ==
    IF DstStart <= t /\ t < DstEnd THEN PdtOffsetMinutes ELSE PstOffsetMinutes

\* getTzParts(date, TIME_ZONE): the local calendar fields, hour in 0..23.
getTzParts(t) == UtcParts(t + ZoneOffsetMinutes(t) * 60)

\* The fields of p without the second.
WithoutSecond(p) ==
    [year |-> p.year, month |-> p.month, day |-> p.day,
     hour |-> p.hour, minute |-> p.minute]

\* getVancouverParts(date): the local fields to the minute.
getVancouverParts(t) == WithoutSecond(getTzParts(t))

\* Date.UTC(p.year, p.month - 1, p.day, p.hour, p.minute, p.second) / 1000
LocalAsUTC(p) == DateUTC(p.year, p.month, p.day, p.hour, p.minute, p.second)

\* getOffsetMinutes(date): (local time read as UTC) - (actual UTC), minutes.
getOffsetMinutes(t) == (LocalAsUTC(getTzParts(t)) - t) \div 60

\* A plausible slip: the first pass's result is returned.
zonedTimeToUtcOnePass(p) ==
    LET guess == DateUTC(p.year, p.month, p.day, p.hour, p.minute, p.second)
    IN  guess - getOffsetMinutes(guess) * 60

\* zonedTimeToUtc(parts): local wall-clock fields -> instant, two passes.
zonedTimeToUtc(p) ==
    LET guess   == DateUTC(p.year, p.month, p.day, p.hour, p.minute, p.second)
        offset1 == getOffsetMinutes(guess)
        utc1    == guess - offset1 * 60
        offset2 == getOffsetMinutes(utc1)
    IN  guess - offset2 * 60

---------------------------------------------------------------------------
(* Texts.                                                                  *)

UpperChars == <<"A","B","C","D","E","F","G","H","I","J","K","L","M",
                "N","O","P","Q","R","S","T","U","V","W","X","Y","Z">>
LowerChars == <<"a","b","c","d","e","f","g","h","i","j","k","l","m",
                "n","o","p","q","r","s","t","u","v","w","x","y","z">>
DigitChars == <<"0","1","2","3","4","5","6","7","8","9">>

\* The characters of the model's alphabet with their UTF-16 code units.
CodeUnits ==
    [c \in {UpperChars[i] : i \in 1..26} |->
        64 + (CHOOSE i \in 1..26 : UpperChars[i] = c)]
    @@ [c \in {LowerChars[i] : i \in 1..26} |->
        96 + (CHOOSE i \in 1..26 : LowerChars[i] = c)]
    @@ [c \in {DigitChars[i] : i \in 1..10} |->
        47 + (CHOOSE i \in 1..10 : DigitChars[i] = c)]
    @@ [c \in {" "} |-> 32] @@ [c \in {"-"} |-> 45] @@ [c \in {"_"} |-> 95]

CharCode(c) == CodeUnits[c]

\* The lower-case letter of each upper-case letter.
LowerOf ==
    [c \in {UpperChars[i] : i \in 1..26} |->
        LowerChars[CHOOSE i \in 1..26 : UpperChars[i] = c]]

LowerChar(c) == IF c \in DOMAIN LowerOf THEN LowerOf[c] ELSE c

\* String.prototype.toLowerCase
toLowerCase(v) == [i \in 1..Len(v) |-> LowerChar(v[i])]

\* String.prototype.includes
includes(v, w) ==
    \E i \in 1..(Len(v) - Len(w) + 1) : SubSeq(v, i, i + Len(w) - 1) = w

\* a < b as JavaScript compares strings: by code unit, a proper prefix first.
RECURSIVE TextLess(_, _)
TextLess(a, b) ==
    IF b = <<>> THEN FALSE
    ELSE IF a = <<>> THEN TRUE
    ELSE IF CharCode(Head(a)) # CharCode(Head(b))
         THEN CharCode(Head(a)) < CharCode(Head(b))
         ELSE TextLess(Tail(a), Tail(b))

\* Array.prototype.sort() on an array holding the texts of S once each.
RECURSIVE SortTexts(_)
SortTexts(S) ==
    IF S = {} THEN <<>>
    ELSE LET least == CHOOSE a \in S : \A b \in S \ {a} : TextLess(a, b)
         IN  <<least>> \o SortTexts(S \ {least})

\* String(n).padStart(2, "0") for 0 <= n <= 99
Pad2(n) == <<DigitChars[(n \div 10) + 1], DigitChars[(n % 10) + 1]>>

\* String(n) for 1000 <= n <= 9999
Str4(n) == <<DigitChars[(n \div 1000) + 1], DigitChars[((n \div 100) % 10) + 1],
             DigitChars[((n \div 10) % 10) + 1], DigitChars[(n % 10) + 1]>>

\* ymdKey(parts): "YYYY-MM-DD"
ymdKey(p) == Str4(p.year) \o <<"-">> \o Pad2(p.month) \o <<"-">> \o Pad2(p.day)

---------------------------------------------------------------------------
(* Status normalisation.                                                   *)

OPEN    == <<"o","p","e","n">>
HOLD    == <<"h","o","l","d">>
ON_HOLD == <<"o","n","-","h","o","l","d">>
CLOSED  == <<"c","l","o","s","e","d">>
UNKNOWN == <<"u","n","k","n","o","w","n">>

Status == {OPEN, ON_HOLD, CLOSED, UNKNOWN}

\* A plausible slip: the tests for "hold" and "open" in the other order.
normalizeStatusHoldFirst(s) ==
    LET v == toLowerCase(s)
    IN  IF includes(v, HOLD) THEN ON_HOLD
        ELSE IF includes(v, OPEN) THEN OPEN
        ELSE IF includes(v, CLOSED) THEN CLOSED
        ELSE UNKNOWN

\* normalizeStatus(s); a missing (undefined, null) s is the empty text,
\* as String(s || "") makes it.
normalizeStatus(s) ==
    LET v == toLowerCase(s)
    IN  IF includes(v, OPEN) THEN OPEN
        ELSE IF includes(v, HOLD) THEN ON_HOLD
        ELSE IF includes(v, CLOSED) THEN CLOSED
        ELSE UNKNOWN

---------------------------------------------------------------------------
(* Timestamps. toISOString() is the tuple of the instant's UTC fields;     *)
(* any other tuple is a string Date.parse does not read. A number that     *)
(* may be NaN is <<>> (NaN) or <<n>>.                                      *)

toISOString(t) ==
    LET p == UtcParts(t)
    IN  <<p.year, p.month, p.day, p.hour, p.minute, p.second>>

\* Date.parse(s) / 1000
DateParse(s) ==
    IF Len(s) = 6 THEN <<DateUTC(s[1], s[2], s[3], s[4], s[5], s[6])>> ELSE <<>>

\* Number.isFinite
IsFinite(x) == x # <<>>

---------------------------------------------------------------------------
(* History helpers.                                                        *)

HISTORY_RETENTION_HOURS == 48

\* A plausible slip: snapshots later than now are dropped too.
pruneSnapshotsUpTo(snapshots, nowT) ==
    LET cutoff == nowT - HISTORY_RETENTION_HOURS * 60 * 60
        keep(s) == LET t == DateParse(s.fetched_at)
                   IN  IsFinite(t) /\ t[1] >= cutoff /\ t[1] <= nowT
    IN  SelectSeq(snapshots, keep)

\* A plausible slip: a factor 60 is missing, the retention is 48 minutes.
pruneSnapshotsMinutes(snapshots, nowT) ==
    LET cutoff == nowT - HISTORY_RETENTION_HOURS * 60
        keep(s) == LET t == DateParse(s.fetched_at)
                   IN  IsFinite(t) /\ t[1] >= cutoff
    IN  SelectSeq(snapshots, keep)

\* pruneSnapshots(snapshots, now)
pruneSnapshots(snapshots, nowT) ==
    LET cutoff == nowT - HISTORY_RETENTION_HOURS * 60 * 60
        keep(s) == LET t == DateParse(s.fetched_at)
                   IN  IsFinite(t) /\ t[1] >= cutoff
    IN  SelectSeq(snapshots, keep)

Abs(x) == IF x < 0 THEN -x ELSE x

\* The loop of nearestSnapshot from position i on: best is the position of
\* the best snapshot so far (0: null, bestDiff = Infinity).
RECURSIVE nearestScan(_, _, _, _, _)
nearestScan(snapshots, targetT, i, best, bestDiff) ==
    IF i > Len(snapshots) THEN [best |-> best, bestDiff |-> bestDiff]
    ELSE LET ms == DateParse(snapshots[i].fetched_at)
         IN  IF ~IsFinite(ms)
             THEN nearestScan(snapshots, targetT, i + 1, best, bestDiff)
             ELSE LET diff == Abs(ms[1] - targetT)
                  IN  IF best = 0 \/ diff < bestDiff
                      THEN nearestScan(snapshots, targetT, i + 1, i, diff)
                      ELSE nearestScan(snapshots, targetT, i + 1, best, bestDiff)

\* A plausible slip: a candidate at exactly the tolerance is refused.
nearestSnapshotStrict(snapshots, targetT, toleranceMinutes) ==
    LET tol == toleranceMinutes * 60
        r   == nearestScan(snapshots, targetT, 1, 0, 0)
    IN  IF r.best = 0 \/ r.bestDiff >= tol THEN 0 ELSE r.best

\* nearestSnapshot(snapshots, targetDate, toleranceMinutes): the position
\* in snapshots of the snapshot returned, 0 for null.
nearestSnapshot(snapshots, targetT, toleranceMinutes) ==
    LET tol == toleranceMinutes * 60
        r   == nearestScan(snapshots, targetT, 1, 0, 0)
    IN  IF r.best = 0 \/ r.bestDiff > tol THEN 0 ELSE r.best

\* setOfOpen(obj): obj maps names to statuses.
setOfOpen(obj) == {name \in DOMAIN obj : toLowerCase(obj[name]) = OPEN}

\* A plausible slip: closed is computed from the current open set.
diffOpensSwapped(prev, curr) ==
    LET prevOpen == setOfOpen(prev)
        currOpen == setOfOpen(curr)
    IN  [opened |-> SortTexts(currOpen \ prevOpen),
         closed |-> SortTexts(currOpen \ prevOpen)]

\* diffOpens(prev, curr)
diffOpens(prev, curr) ==
    LET prevOpen == setOfOpen(prev)
        currOpen == setOfOpen(curr)
    IN  [opened |-> SortTexts({n \in currOpen : n \notin prevOpen}),
         closed |-> SortTexts({n \in prevOpen : n \notin currOpen})]

---------------------------------------------------------------------------
(* The schedule gate.                                                      *)

\* inSeason(month): November to May
inSeason(month) == month = 11 \/ month = 12 \/ (month >= 1 /\ month <= 5)

minutesSinceMidnight(p) == p.hour * 60 + p.minute

\* A plausible slip: the rolling-opening window polls every 10 minutes too.
getMinIntervalMsFlat(nowParts) ==
    LET m == minutesSinceMidnight(nowParts)
    IN  IF ~inSeason(nowParts.month) THEN <<>>
        ELSE IF m >= 23 * 60 THEN <<>>
        ELSE IF m < 5 * 60 THEN <<>>
        ELSE <<10 * 60>>

\* getMinIntervalMs(nowParts) / 1000: <<interval>>, or <<>> for null.
getMinIntervalMs(nowParts) ==
    LET m == minutesSinceMidnight(nowParts)
    IN  IF ~inSeason(nowParts.month) THEN <<>>
        ELSE IF m >= 23 * 60 THEN <<>>
        ELSE IF m < 5 * 60 THEN <<>>
        ELSE IF m >= 5 * 60 /\ m < 7 * 60 THEN <<10 * 60>>
        ELSE IF m >= 7 * 60 /\ m < (7 * 60 + 50) THEN <<10 * 60>>
        ELSE IF m >= (7 * 60 + 50) /\ m < (10 * 60 + 30) THEN <<5 * 60>>
        ELSE <<10 * 60>>

\* A file that is missing or that JSON.parse does not read.
NoFile == [exists |-> FALSE]

\* A plausible slip: the gate ignores the time of the last fetch.
shouldRunNowNoInterval(nowT, existing) ==
    getMinIntervalMs(getVancouverParts(nowT)) # <<>>

\* shouldRunNow(): nowT is its new Date(), existing is status.json. A
\* fetched_at that is missing or empty is falsy.
shouldRunNow(nowT, existing) ==
    LET nowParts      == getVancouverParts(nowT)
        minIntervalMs == getMinIntervalMs(nowParts)
    IN  IF minIntervalMs = <<>> THEN FALSE
        ELSE IF existing.exists /\ existing.fetched_at # <<>>
             THEN LET last  == DateParse(existing.fetched_at)
                  IN  IF IsFinite(last) /\ nowT - last[1] >= 0
                         /\ nowT - last[1] < minIntervalMs[1]
                      THEN FALSE
                      ELSE TRUE
             ELSE TRUE

---------------------------------------------------------------------------
(* One run of fetch-status.mjs.                                            *)

OPEN_THRESHOLD  == 3
CLOSE_THRESHOLD == 3

\* history.meta of a history that was never written: {}. A missing field
\* (undefined) and null are <<>>.
EmptyMeta == [last_event_key |-> <<>>, last_event_created_at |-> <<>>]

\* (await readJsonOrNull(HISTORY_FILE)) || { tz, snapshots: [], meta: {} }
LoadHistory(file) ==
    IF file.exists THEN [snapshots |-> file.snapshots, meta |-> file.meta]
    ELSE [snapshots |-> <<>>, meta |-> EmptyMeta]

\* lift.statusIcon || lift.status
StatusSource(e) == IF e.statusIcon # <<>> THEN e.statusIcon ELSE e.status

\* The loops over the areas' lifts (or trails): entries lists them in the
\* order met, a later entry of the same name replacing an earlier one.
CollectStatuses(entries) ==
    [n \in {entries[i].name : i \in DOMAIN entries} |->
        LET last == CHOOSE i \in DOMAIN entries :
                        /\ entries[i].name = n
                        /\ \A j \in DOMAIN entries : entries[j].name = n => j <= i
        IN  normalizeStatus(StatusSource(entries[last]))]

\* `${ymdKey(todayParts)}_10am_vs_${ymdKey(yesterdayParts)}_3pm`
EventKeyOf(todayParts, yesterdayParts) ==
    ymdKey(todayParts) \o <<"_","1","0","a","m","_","v","s","_">>
        \o ymdKey(yesterdayParts) \o <<"_","3","p","m">>

\* A plausible slip: the stored key is never compared.
AlreadyFiredNever(meta, eventKey) == FALSE

\* history.meta.last_event_key === eventKey
AlreadyFired(meta, eventKey) == meta.last_event_key = eventKey

\* A plausible slip: a change counts only above the threshold.
SignificantAbove(openedCount, closedCount) ==
    openedCount > OPEN_THRESHOLD \/ closedCount > CLOSE_THRESHOLD

\* openedCount >= OPEN_THRESHOLD || closedCount >= CLOSE_THRESHOLD
Significant(openedCount, closedCount) ==
    openedCount >= OPEN_THRESHOLD \/ closedCount >= CLOSE_THRESHOLD

\* zonedTimeToUtc({ year, month, day, hour, minute: 0, second: 0 }) on the
\* date of parts.
TargetInstant(parts, hour) ==
    zonedTimeToUtc([year |-> parts.year, month |-> parts.month, day |-> parts.day,
                    hour |-> hour, minute |-> 0, second |-> 0])

NoDiff == [opened |-> <<>>, closed |-> <<>>]

\* A plausible slip: the run fills a placeholder, the caption, itself.
MakeEventWithCaption(eventKey, created_at, from, to, liftsDiff, trailsDiff) ==
    [exists |-> TRUE,
     key |-> eventKey,
     created_at |-> created_at,
     compare |-> [from |-> [label |-> "yesterday_3pm", fetched_at |-> from.fetched_at],
                  to   |-> [label |-> "today_10am", fetched_at |-> to.fetched_at]],
     summary |-> [opened_total  |-> Len(liftsDiff.opened) + Len(trailsDiff.opened),
                  closed_total  |-> Len(liftsDiff.closed) + Len(trailsDiff.closed),
                  opened_lifts  |-> Len(liftsDiff.opened),
                  closed_lifts  |-> Len(liftsDiff.closed),
                  opened_trails |-> Len(trailsDiff.opened),
                  closed_trails |-> Len(trailsDiff.closed)],
     details |-> [lifts |-> liftsDiff, trails |-> trailsDiff],
     placeholders |-> [screenshot_path |-> <<>>,
                       instagram_posted |-> FALSE,
                       instagram_post_id |-> <<>>,
                       caption |-> eventKey]]

\* The event record written to event.json; null is <<>>.
MakeEvent(eventKey, created_at, from, to, liftsDiff, trailsDiff) ==
    [exists |-> TRUE,
     key |-> eventKey,
     created_at |-> created_at,
     compare |-> [from |-> [label |-> "yesterday_3pm", fetched_at |-> from.fetched_at],
                  to   |-> [label |-> "today_10am", fetched_at |-> to.fetched_at]],
     summary |-> [opened_total  |-> Len(liftsDiff.opened) + Len(trailsDiff.opened),
                  closed_total  |-> Len(liftsDiff.closed) + Len(trailsDiff.closed),
                  opened_lifts  |-> Len(liftsDiff.opened),
                  closed_lifts  |-> Len(liftsDiff.closed),
                  opened_trails |-> Len(trailsDiff.opened),
                  closed_trails |-> Len(trailsDiff.closed)],
     details |-> [lifts |-> liftsDiff, trails |-> trailsDiff],
     placeholders |-> [screenshot_path |-> <<>>,
                       instagram_posted |-> FALSE,
                       instagram_post_id |-> <<>>,
                       caption |-> <<>>]]

\* What a run leaves: its locals, whether it wrote event (and which), and
\* history.meta as written.
Outcome(snapToday10, snapYest3, eventKey, alreadyFired, liftsDiff, trailsDiff, fired, event, meta) ==
    [snapToday10 |-> snapToday10, snapYest3 |-> snapYest3,
     eventKey |-> eventKey, alreadyFired |-> alreadyFired,
     openedCount |-> Len(liftsDiff.opened) + Len(trailsDiff.opened),
     closedCount |-> Len(liftsDiff.closed) + Len(trailsDiff.closed),
     fired |-> fired, event |-> event, meta |-> meta]

\* A plausible slip: the key is marked as fired whether or not the change
\* is significant.
CompareMarkedAlways(snapshots, meta, nowT, eventKey, snapToday10, snapYest3, liftsDiff, trailsDiff) ==
    IF Significant(Len(liftsDiff.opened) + Len(trailsDiff.opened),
                   Len(liftsDiff.closed) + Len(trailsDiff.closed))
    THEN Outcome(snapToday10, snapYest3, eventKey, FALSE, liftsDiff, trailsDiff, TRUE,
                 MakeEvent(eventKey, toISOString(nowT), snapshots[snapYest3],
                           snapshots[snapToday10], liftsDiff, trailsDiff),
                 [last_event_key |-> eventKey,
                  last_event_created_at |-> toISOString(nowT)])
    ELSE Outcome(snapToday10, snapYest3, eventKey, FALSE, liftsDiff, trailsDiff, FALSE,
                 NoFile,
                 [last_event_key |-> eventKey,
                  last_event_created_at |-> toISOString(nowT)])

\* The branch `if (significant)` with the two diffs computed.
Compare(snapshots, meta, nowT, eventKey, snapToday10, snapYest3, liftsDiff, trailsDiff) ==
    IF Significant(Len(liftsDiff.opened) + Len(trailsDiff.opened),
                   Len(liftsDiff.closed) + Len(trailsDiff.closed))
    THEN Outcome(snapToday10, snapYest3, eventKey, FALSE, liftsDiff, trailsDiff, TRUE,
                 MakeEvent(eventKey, toISOString(nowT), snapshots[snapYest3],
                           snapshots[snapToday10], liftsDiff, trailsDiff),
                 [last_event_key |-> eventKey,
                  last_event_created_at |-> toISOString(nowT)])
    ELSE Outcome(snapToday10, snapYest3, eventKey, FALSE, liftsDiff, trailsDiff, FALSE,
                 NoFile, meta)

\* The branch `if (snapToday10 && snapYest3 && !alreadyFired)`.
Decide(snapshots, meta, nowT, eventKey, snapToday10, snapYest3) ==
    IF snapToday10 # 0 /\ snapYest3 # 0 /\ ~AlreadyFired(meta, eventKey)
    THEN Compare(snapshots, meta, nowT, eventKey, snapToday10, snapYest3,
                 diffOpens(snapshots[snapYest3].lifts, snapshots[snapToday10].lifts),
                 diffOpens(snapshots[snapYest3].trails, snapshots[snapToday10].trails))
    ELSE Outcome(snapToday10, snapYest3, eventKey, AlreadyFired(meta, eventKey),
                 NoDiff, NoDiff, FALSE, NoFile, meta)

\* The event controller: from the pruned snapshots, the loaded meta and the
\* run's now.
EventControl(snapshots, meta, nowT) ==
    Decide(snapshots, meta, nowT,
           EventKeyOf(getTzParts(nowT), getTzParts(nowT - 24 * 60 * 60)),
           nearestSnapshot(snapshots, TargetInstant(getTzParts(nowT), 10), 90),
           nearestSnapshot(snapshots,
                           TargetInstant(getTzParts(nowT - 24 * 60 * 60), 15), 300))

---------------------------------------------------------------------------
(* The runs of the poller: inputs.                                         *)

MaxPolls        == 3   \* runs that fetch, per behaviour
MaxFetchSeconds == 5   \* longest modelled time between the gate and the fetch's end

\* The instant of a 2025 local wall-clock reading in daylight (PDT) and in
\* standard (PST) time.
PDT(month, day, hour, minute, second) == DateUTC(2025, month, day, hour + 7, minute, second)
PST(month, day, hour, minute, second) == DateUTC(2025, month, day, hour + 8, minute, second)

\* The instants at which a run may start or its fetch may end, per scenario.
Timeline(sc) ==
    CASE sc = "fallBack" ->
            { PDT(11, 1, 15, 2, 0),  PDT(11, 1, 23, 30, 0),
              PST(11, 2, 9, 58, 0),  PST(11, 2, 10, 2, 0),  PST(11, 2, 10, 4, 0),
              PST(11, 2, 22, 59, 58), PST(11, 2, 23, 0, 1),
              PST(11, 3, 9, 58, 0),  PST(11, 4, 10, 0, 0) }
      [] sc = "seasonEnd" ->
            { PDT(5, 31, 15, 0, 0), PDT(5, 31, 22, 50, 0),
              PDT(6, 1, 9, 58, 0),  PDT(6, 1, 10, 10, 0) }
      [] sc = "springForward" ->
            { PST(3, 8, 15, 0, 0), PDT(3, 9, 9, 58, 0), PDT(3, 10, 9, 58, 0) }
      [] sc = "twoMornings" ->
            { PST(12, 1, 15, 0, 0), PST(12, 2, 10, 0, 0), PST(12, 3, 10, 0, 0) }
      [] sc = "equidistant" ->
            { PST(1, 12, 15, 0, 0), PST(1, 14, 15, 0, 0),
              PST(1, 15, 9, 57, 0), PST(1, 15, 10, 3, 0) }

Scenarios == {"fallBack", "seasonEnd", "springForward", "twoMornings", "equidistant"}

NameA == <<"A">>
NameB == <<"B">>
NameC == <<"C">>
NameT == <<"T">>

RawOpen   == <<"O","p","e","n">>
RawClosed == <<"C","l","o","s","e","d">>
RawOnHold == <<"O","n"," ","H","o","l","d">>

Entity(name, statusIcon, status) ==
    [name |-> name, statusIcon |-> statusIcon, status |-> status]

\* The feed's answers: the lifts and the trails of its areas.
Feeds ==
    { [lifts  |-> <<Entity(NameA, RawOpen, <<>>), Entity(NameB, <<>>, RawClosed),
                    Entity(NameC, RawOnHold, <<>>)>>,
       trails |-> <<Entity(NameT, RawClosed, <<>>)>>],
      [lifts  |-> <<Entity(NameA, RawOpen, <<>>), Entity(NameB, RawOpen, <<>>),
                    Entity(NameC, <<>>, RawOpen)>>,
       trails |-> <<Entity(NameT, RawClosed, <<>>)>>],
      [lifts  |-> <<Entity(NameA, RawOpen, <<>>), Entity(NameB, RawOpen, <<>>),
                    Entity(NameC, <<>>, RawOpen)>>,
       trails |-> <<Entity(NameT, <<>>, <<>>), Entity(NameT, RawOpen, <<>>)>>] }

NoCall == [fn |-> "none"]

NoRun == [outcome |-> "none"]

\* No run of post_instagraph.mjs so far.
PubIdle == [pc |-> "idle", outcome |-> "none", reason |-> "none", event |-> NoFile,
            calls |-> {}, status |-> "", elapsed |-> 0]

---------------------------------------------------------------------------
(* The runs of the poller: actions. A run starts at t, an instant of the   *)
(* scenario not before the clock; runs do not overlap.                     *)

\* The gate is closed: process.exit(0) before anything is read or written.
RunSkipped(t) ==
    /\ t \in Timeline(scenario) /\ t >= now
    /\ ~shouldRunNow(t, statusFile)
    /\ now' = t
    /\ run' = [outcome |-> "skip", started |-> t]
    /\ UNCHANGED <<statusFile, historyFile, eventFile, eventLog, polls, scenario,
                   pub, publishLog, call>>

\* A plausible slip: status.json is written before the response is checked.
RunFetchFailedAfterWrite(t, f) ==
    /\ t \in Timeline(scenario) /\ t >= now
    /\ f \in Timeline(scenario) /\ t <= f /\ f <= t + MaxFetchSeconds
    /\ shouldRunNow(t, statusFile)
    /\ now' = f
    /\ run' = [outcome |-> "error", started |-> t]
    /\ statusFile' = [exists |-> TRUE, fetched_at |-> toISOString(f),
                      lifts |-> <<>>, trails |-> <<>>]
    /\ UNCHANGED <<historyFile, eventFile, eventLog, polls, scenario,
                   pub, publishLog, call>>

\* The gate is open and the feed answers with a non-success status at f:
\* the run throws before any write.
RunFetchFailed(t, f) ==
    /\ t \in Timeline(scenario) /\ t >= now
    /\ f \in Timeline(scenario) /\ t <= f /\ f <= t + MaxFetchSeconds
    /\ shouldRunNow(t, statusFile)
    /\ now' = f
    /\ run' = [outcome |-> "error", started |-> t]
    /\ UNCHANGED <<statusFile, historyFile, eventFile, eventLog, polls, scenario,
                   pub, publishLog, call>>

\* The current-status record written to status.json.
StatusRecord(f, data) ==
    [exists |-> TRUE, fetched_at |-> toISOString(f),
     lifts |-> CollectStatuses(data.lifts), trails |-> CollectStatuses(data.trails)]

\* The snapshot appended to the history.
SnapshotOf(out) ==
    [fetched_at |-> out.fetched_at, lifts |-> out.lifts, trails |-> out.trails]

\* The writes of a run: status.json, event.json when the event fired, and
\* history.json at the end.
WriteAll(t, out, snapshots, ctl) ==
    /\ statusFile' = out
    /\ historyFile' = [exists |-> TRUE, snapshots |-> snapshots, meta |-> ctl.meta]
    /\ eventFile' = IF ctl.fired THEN ctl.event ELSE eventFile
    /\ eventLog' = IF ctl.fired THEN Append(eventLog, ctl.eventKey) ELSE eventLog
    /\ run' = [outcome |-> "poll", started |-> t,
               snapToday10 |-> ctl.snapToday10, snapYest3 |-> ctl.snapYest3,
               eventKey |-> ctl.eventKey, alreadyFired |-> ctl.alreadyFired,
               openedCount |-> ctl.openedCount, closedCount |-> ctl.closedCount,
               fired |-> ctl.fired]

\* A plausible slip: the reference snapshots are searched among the
\* snapshots of the earlier runs, the run's own snapshot left out.
UpdateHistorySearchFirst(t, f, out, snapshots) ==
    WriteAll(t, out, snapshots,
             EventControl(SubSeq(snapshots, 1, Len(snapshots) - 1),
                          LoadHistory(historyFile).meta, f))

\* The history update with the snapshots appended and pruned.
UpdateHistory(t, f, out, snapshots) ==
    WriteAll(t, out, snapshots,
             EventControl(snapshots, LoadHistory(historyFile).meta, f))

\* A plausible slip: the log is written as appended, without the pruning.
UpdateStatusNoPrune(t, f, out) ==
    UpdateHistory(t, f, out, Append(LoadHistory(historyFile).snapshots, SnapshotOf(out)))

\* The run from the status record on.
UpdateStatus(t, f, out) ==
    UpdateHistory(t, f, out,
                  pruneSnapshots(Append(LoadHistory(historyFile).snapshots,
                                        SnapshotOf(out)), f))

\* The gate is open and the feed answers data at f: status.json, the
\* history and, when the change is significant, event.json are written.
RunPolled(t, f, data) ==
    /\ polls < MaxPolls
    /\ t \in Timeline(scenario) /\ t >= now
    /\ f \in Timeline(scenario) /\ t <= f /\ f <= t + MaxFetchSeconds
    /\ shouldRunNow(t, statusFile)
    /\ UpdateStatus(t, f, StatusRecord(f, data))
    /\ now' = f
    /\ polls' = polls + 1
    /\ UNCHANGED <<scenario, pub, publishLog, call>>

---------------------------------------------------------------------------
(* post_instagraph.mjs, the publisher of the event record, and the step    *)
(* before it that fills the record's placeholders. A run of the publisher  *)
(* is a sequence of steps, one per request to the Graph API; pub holds its *)
(* position (pc), its copy of the record read at its start (event), the    *)
(* requests made so far (calls), the latest status_code read (status) and, *)
(* in the status loop, the value of Date.now() - start in seconds at the   *)
(* next request (elapsed). A finished run leaves its outcome and its       *)
(* reason.                                                                 *)

\* const maxWaitMs = 2 * 60 * 1000, in seconds
maxWaitMs == 120

\* sleep(5000), in seconds
SleepSeconds == 5

\* process.env: a variable that is unset is <<>>.
Envs ==
    { [IG_USER_ID |-> u, ACCESS_TOKEN |-> <<"t">>, SCREENSHOT_BASE_URL |-> b] :
        u \in {<<>>, <<"u">>}, b \in {<<>>, <<"h","t","t","p","s",":","/","/","b">>} }

\* requiredEnv() throws
requiredEnvThrows(env) == env.IG_USER_ID = <<>> \/ env.ACCESS_TOKEN = <<>>

\* String.prototype.startsWith
startsWith(v, w) == Len(v) >= Len(w) /\ SubSeq(v, 1, Len(w)) = w

\* /^https?:\/\//i.test(v)
IsHttpUrl(v) ==
    \/ startsWith(toLowerCase(v), <<"h","t","t","p",":","/","/">>)
    \/ startsWith(toLowerCase(v), <<"h","t","t","p","s",":","/","/">>)

\* base.endsWith("/") ? base : base + "/"
WithSlash(base) == IF base[Len(base)] = "/" THEN base ELSE base \o <<"/">>

\* v.replace(/^\//, "")
WithoutLeadingSlash(v) == IF v[1] = "/" THEN Tail(v) ELSE v

\* asPublicUrl(screenshotPathOrUrl) under SCREENSHOT_BASE_URL = base; null
\* and the empty string are <<>>.
asPublicUrl(screenshotPathOrUrl, base) ==
    IF screenshotPathOrUrl = <<>> THEN <<>>
    ELSE IF IsHttpUrl(screenshotPathOrUrl) THEN screenshotPathOrUrl
    ELSE IF base = <<>> THEN <<>>
    ELSE WithSlash(base) \o WithoutLeadingSlash(screenshotPathOrUrl)

\* The run ended: return (skip), a throw caught by main().catch (error), or
\* the write-back done (posted). calls is the set of the kinds of request
\* the run made.
PubEnded(outcome, reason, calls) ==
    [pc |-> "idle", outcome |-> outcome, reason |-> reason, event |-> NoFile,
     calls |-> calls, status |-> "", elapsed |-> 0]

\* The run goes on at pc.
PubAt(pc, event, calls, status, elapsed) ==
    [pc |-> pc, outcome |-> "running", reason |-> "none", event |-> event,
     calls |-> calls, status |-> status, elapsed |-> elapsed]

\* The answers of the Graph API to GET /{creation-id}?fields=status_code: a
\* non-success response, or a status_code.
StatusAnswers == {"HTTP_ERROR", "FINISHED", "ERROR", "IN_PROGRESS", "EXPIRED"}

\* Seconds a status request may take.
QueryLatencies == {0, 121}

\* The ids media_publish answers.
MediaIds == {<<"1","7">>, <<"1","8">>}

\* The screenshot paths and the captions the step before the publisher sets.
ScreenshotPaths == {<<"h","t","t","p",":","/","/","s">>, <<"/","s">>}

Captions == {<<"c">>}

\* The step between the poller and the publisher, which is not part of the
\* sources: it sets the screenshot path and the caption of an event record
\* that has no caption yet.
FillPlaceholders(screenshot, caption) ==
    /\ pub.pc = "idle"
    /\ eventFile.exists
    /\ eventFile.placeholders.caption = <<>>
    /\ eventFile' = [eventFile EXCEPT !.placeholders.screenshot_path = screenshot,
                                      !.placeholders.caption = caption]
    /\ UNCHANGED <<now, statusFile, historyFile, run, eventLog, polls, scenario,
                   pub, publishLog, call>>

\* A plausible slip: the guard on instagram_posted is missing.
PubCreateNoPostedGuard(event, imageUrl, createOk) ==
    IF event.placeholders.caption = <<>> THEN PubEnded("skip", "nocaption", {})
    ELSE IF imageUrl = <<>> THEN PubEnded("skip", "nourl", {})
    ELSE IF ~createOk THEN PubEnded("error", "create", {"create"})
    ELSE PubAt("polling", event, {"create"}, "", 0)

\* main() from the record read to the answer of createImageContainer.
PubCreate(event, imageUrl, createOk) ==
    IF event.placeholders.instagram_posted THEN PubEnded("skip", "posted", {})
    ELSE IF event.placeholders.caption = <<>> THEN PubEnded("skip", "nocaption", {})
    ELSE IF imageUrl = <<>> THEN PubEnded("skip", "nourl", {})
    ELSE IF ~createOk THEN PubEnded("error", "create", {"create"})
    ELSE PubAt("polling", event, {"create"}, "", 0)

\* main() from its start to the answer of createImageContainer: createOk
\* tells whether POST /{ig-user-id}/media gets a success response.
PubStart(env, createOk) ==
    /\ pub.pc = "idle"
    /\ pub' = IF requiredEnvThrows(env) THEN PubEnded("error", "env", {})
              ELSE IF ~eventFile.exists THEN PubEnded("skip", "nofile", {})
              ELSE IF "placeholders" \notin DOMAIN eventFile
                   THEN PubEnded("skip", "noplaceholders", {})
              ELSE PubCreate(eventFile,
                             asPublicUrl(eventFile.placeholders.screenshot_path,
                                         env.SCREENSHOT_BASE_URL),
                             createOk)
    /\ UNCHANGED <<now, statusFile, historyFile, eventFile, run, eventLog, polls,
                   scenario, publishLog, call>>

\* A plausible slip: the status ERROR is not tested, the loop goes on.
PubQueryErrorIgnored(answer, latency) ==
    /\ pub.pc = "polling"
    /\ pub' = IF answer = "HTTP_ERROR"
              THEN PubEnded("error", "status", pub.calls \cup {"status"})
              ELSE IF answer = "FINISHED"
              THEN PubAt("publishing", pub.event, pub.calls \cup {"status"}, answer, 0)
              ELSE IF pub.elapsed + latency > maxWaitMs
              THEN PubEnded("error", "timeout", pub.calls \cup {"status"})
              ELSE PubAt("polling", pub.event, pub.calls \cup {"status"}, answer,
                         pub.elapsed + latency + SleepSeconds)
    /\ UNCHANGED <<now, statusFile, historyFile, eventFile, run, eventLog, polls,
                   scenario, publishLog, call>>

\* One turn of the status loop: getContainerStatus answers after latency
\* seconds, then the checks, then sleep(5000).
PubQuery(answer, latency) ==
    /\ pub.pc = "polling"
    /\ pub' = IF answer = "HTTP_ERROR"
              THEN PubEnded("error", "status", pub.calls \cup {"status"})
              ELSE IF answer = "FINISHED"
              THEN PubAt("publishing", pub.event, pub.calls \cup {"status"}, answer, 0)
              ELSE IF answer = "ERROR"
              THEN PubEnded("error", "container", pub.calls \cup {"status"})
              ELSE IF pub.elapsed + latency > maxWaitMs
              THEN PubEnded("error", "timeout", pub.calls \cup {"status"})
              ELSE PubAt("polling", pub.event, pub.calls \cup {"status"}, answer,
                         pub.elapsed + latency + SleepSeconds)
    /\ UNCHANGED <<now, statusFile, historyFile, eventFile, run, eventLog, polls,
                   scenario, publishLog, call>>

\* event.placeholders.instagram_posted = true; instagram_post_id = mediaId
Posted(event, mediaId) ==
    [event EXCEPT !.placeholders.instagram_posted = TRUE,
                  !.placeholders.instagram_post_id = mediaId]

\* A plausible slip: the record is marked as posted before the answer of
\* media_publish is known.
PubPublishMarkedFirst(ok, mediaId) ==
    /\ pub.pc = "publishing"
    /\ pub' = IF ok THEN PubEnded("posted", "none", pub.calls \cup {"publish"})
              ELSE PubEnded("error", "publish", pub.calls \cup {"publish"})
    /\ eventFile' = Posted(pub.event, mediaId)
    /\ publishLog' = IF ok THEN Append(publishLog, pub.event.key) ELSE publishLog
    /\ UNCHANGED <<now, statusFile, historyFile, run, eventLog, polls, scenario, call>>

\* publishContainer and the write-back: ok tells whether POST
\* /{ig-user-id}/media_publish gets a success response, mediaId is its id.
PubPublish(ok, mediaId) ==
    /\ pub.pc = "publishing"
    /\ pub' = IF ok THEN PubEnded("posted", "none", pub.calls \cup {"publish"})
              ELSE PubEnded("error", "publish", pub.calls \cup {"publish"})
    /\ eventFile' = IF ok THEN Posted(pub.event, mediaId) ELSE eventFile
    /\ publishLog' = IF ok THEN Append(publishLog, pub.event.key) ELSE publishLog
    /\ UNCHANGED <<now, statusFile, historyFile, run, eventLog, polls, scenario, call>>

MinOf(S) == CHOOSE x \in S : \A y \in S : x <= y

Init ==
    /\ scenario \in Scenarios
    /\ now = MinOf(Timeline(scenario))
    /\ statusFile = NoFile
    /\ historyFile = NoFile
    /\ eventFile = NoFile
    /\ run = NoRun
    /\ eventLog = <<>>
    /\ polls = 0
    /\ pub = PubIdle
    /\ publishLog = <<>>
    /\ call = NoCall

Next ==
    \/ \E t \in Timeline(scenario) : RunSkipped(t)
    \/ \E t, f \in Timeline(scenario) : RunFetchFailed(t, f)
    \/ \E t, f \in Timeline(scenario) : \E data \in Feeds : RunPolled(t, f, data)

Spec == Init /\ [][Next]_vars

\* The poller, the step that fills the placeholders and the publisher, run
\* one after the other in any order: no run starts while another goes on.
PipeNext ==
    \/ \E t \in Timeline(scenario) : pub.pc = "idle" /\ RunSkipped(t)
    \/ \E t, f \in Timeline(scenario) : pub.pc = "idle" /\ RunFetchFailed(t, f)
    \/ \E t, f \in Timeline(scenario) : \E data \in Feeds :
            pub.pc = "idle" /\ RunPolled(t, f, data)
    \/ \E screenshot \in ScreenshotPaths, caption \in Captions :
            FillPlaceholders(screenshot, caption)
    \/ \E env \in Envs, createOk \in BOOLEAN : PubStart(env, createOk)
    \/ \E answer \in StatusAnswers, latency \in QueryLatencies : PubQuery(answer, latency)
    \/ \E ok \in BOOLEAN, mediaId \in MediaIds : PubPublish(ok, mediaId)

\* The runs of the pipeline are drawn from the scenario of two mornings.
PipeInit == Init /\ scenario = "twoMornings"

PipeSpec == PipeInit /\ [][PipeNext]_vars

\* A run of the publisher that has started goes on: every request to the
\* Graph API gets its answer, and the process is not stopped.
PipeLiveSpec ==
    /\ PipeSpec
    /\ WF_vars(\E answer \in StatusAnswers, latency \in QueryLatencies :
                    PubQuery(answer, latency))
    /\ WF_vars(\E ok \in BOOLEAN, mediaId \in MediaIds : PubPublish(ok, mediaId))

---------------------------------------------------------------------------
(* Functions checked on their own: the state is one call, its input drawn  *)
(* by the initial condition, its output set by the action.                 *)

\* The program's state where no run is modelled.
ProgIdle ==
    /\ now = 0
    /\ statusFile = NoFile
    /\ historyFile = NoFile
    /\ eventFile = NoFile
    /\ run = NoRun
    /\ eventLog = <<>>
    /\ polls = 0
    /\ scenario = "none"
    /\ pub = PubIdle
    /\ publishLog = <<>>

MaxLogLen == 3   \* longest snapshot log given to pruneSnapshots and nearestSnapshot
MaxPieces == 3   \* pieces making up a status string given to normalizeStatus

\* All sequences over S of length 0..n.
SeqsUpTo(S, n) == UNION {[1..k -> S] : k \in 0..n}

\* ---- zonedTimeToUtc(getTzParts(instant)) ----

TzBases == {DstStart, DstEnd, PST(1, 15, 12, 0, 0), PDT(7, 1, 12, 0, 0)}

TzOffsets == {-28801, -28800, -25201, -25200, -3601, -3600, -61, -1, 0, 1, 59, 60,
              1800, 3599, 3600, 3601, 25199, 25200, 25201, 28799, 28800, 28801}

TzInstants == {b + d : b \in TzBases, d \in TzOffsets}

TzInit ==
    /\ ProgIdle
    /\ call \in {[fn |-> "roundTrip", instant |-> t, done |-> FALSE, output |-> 0] :
                    t \in TzInstants}

CallRoundTrip ==
    /\ call.fn = "roundTrip" /\ ~call.done
    /\ call' = [call EXCEPT !.done = TRUE,
                            !.output = zonedTimeToUtc(getTzParts(call.instant))]
    /\ UNCHANGED progVars

TzSpec == TzInit /\ [][CallRoundTrip]_vars

\* ---- normalizeStatus ----

StatusPieces ==
    { <<>>, <<"o","p","e","n">>, <<"O","P","E","N">>, <<"O","p","e">>, <<"n">>,
      <<"H","o","l","d">>, <<"c","l","o","s","e","d">>, <<"x"," ">> }

RECURSIVE Concat(_)
Concat(texts) == IF texts = <<>> THEN <<>> ELSE Head(texts) \o Concat(Tail(texts))

StatusInputs == {Concat(ps) : ps \in [1..MaxPieces -> StatusPieces]}

NormInit ==
    /\ ProgIdle
    /\ call \in {[fn |-> "normalizeStatus", s |-> s, done |-> FALSE, output |-> <<>>] :
                    s \in StatusInputs}

CallNormalizeStatus ==
    /\ call.fn = "normalizeStatus" /\ ~call.done
    /\ call' = [call EXCEPT !.done = TRUE, !.output = normalizeStatus(call.s)]
    /\ UNCHANGED progVars

NormSpec == NormInit /\ [][CallNormalizeStatus]_vars

\* ---- diffOpens ----

DiffNames == {<<"A">>, <<"B">>, <<"a">>}

\* Every map from some of the names to a status.
StatusMaps == UNION {[D -> Status] : D \in SUBSET DiffNames}

DiffInit ==
    /\ ProgIdle
    /\ call \in {[fn |-> "diffOpens", prev |-> p, curr |-> c, done |-> FALSE,
                  output |-> NoDiff] : p \in StatusMaps, c \in StatusMaps}

CallDiffOpens ==
    /\ call.fn = "diffOpens" /\ ~call.done
    /\ call' = [call EXCEPT !.done = TRUE, !.output = diffOpens(call.prev, call.curr)]
    /\ UNCHANGED progVars

DiffSpec == DiffInit /\ [][CallDiffOpens]_vars

\* ---- pruneSnapshots and nearestSnapshot ----

\* The instant the logs under test are pruned at, and searched around.
LogNow == PST(11, 2, 10, 0, 0)

\* A fetched_at that is no timestamp.
Malformed == <<"?">>

\* Snapshots by their fetched_at alone: their statuses play no part.
SnapAt(stamp) == [fetched_at |-> stamp, lifts |-> <<>>, trails |-> <<>>]

PruneStamps ==
    {toISOString(LogNow + d) : d \in {-(48 * 3600) - 1, -(48 * 3600), -3600, 0, 1}}
        \cup {Malformed}

PruneInit ==
    /\ ProgIdle
    /\ call \in {[fn |-> "pruneSnapshots", snapshots |-> l, now |-> LogNow,
                  done |-> FALSE, output |-> <<>>] :
                    l \in SeqsUpTo({SnapAt(x) : x \in PruneStamps}, MaxLogLen)}

CallPruneSnapshots ==
    /\ call.fn = "pruneSnapshots" /\ ~call.done
    /\ call' = [call EXCEPT !.done = TRUE,
                            !.output = pruneSnapshots(call.snapshots, call.now)]
    /\ UNCHANGED progVars

PruneSpec == PruneInit /\ [][CallPruneSnapshots]_vars

\* pruneSnapshots on the logs above, and within the runs of the poller.
PruneRunInit == Init \/ PruneInit

PruneRunNext ==
    \/ call = NoCall /\ Next
    \/ CallPruneSnapshots

PruneRunSpec == PruneRunInit /\ [][PruneRunNext]_vars

NearestStamps ==
    {toISOString(LogNow + d) : d \in {-5401, -5400, -60, 60, 5400}} \cup {Malformed}

NearestInit ==
    /\ ProgIdle
    /\ call \in {[fn |-> "nearestSnapshot", snapshots |-> l, target |-> LogNow,
                  toleranceMinutes |-> 90, done |-> FALSE, output |-> 0] :
                    l \in SeqsUpTo({SnapAt(x) : x \in NearestStamps}, MaxLogLen)}

CallNearestSnapshot ==
    /\ call.fn = "nearestSnapshot" /\ ~call.done
    /\ call' = [call EXCEPT !.done = TRUE,
                            !.output = nearestSnapshot(call.snapshots, call.target,
                                                       call.toleranceMinutes)]
    /\ UNCHANGED progVars

NearestSpec == NearestInit /\ [][CallNearestSnapshot]_vars

\* ---- shouldRunNow ----

GateInstants ==
    { PDT(6, 15, 12, 0, 0), PDT(5, 31, 22, 59, 59), PDT(6, 1, 8, 0, 0),
      PDT(10, 31, 8, 0, 0), PDT(11, 1, 8, 0, 0),
      PST(1, 15, 4, 59, 59), PST(1, 15, 5, 0, 0), PST(1, 15, 7, 49, 59),
      PST(1, 15, 7, 50, 0), PST(1, 15, 8, 0, 0), PST(1, 15, 10, 29, 59),
      PST(1, 15, 10, 30, 0), PST(1, 15, 22, 59, 59), PST(1, 15, 23, 0, 0),
      PST(12, 31, 8, 0, 0), PDT(3, 9, 8, 0, 0), PST(11, 2, 8, 0, 0) }

\* Seconds from the last fetch to the gate's now.
GateElapsed == {-60, 0, 240, 299, 300, 360, 599, 600, 86400}

GateFiles(nowT) ==
    {NoFile, [exists |-> TRUE, fetched_at |-> <<>>], [exists |-> TRUE, fetched_at |-> Malformed]}
        \cup {[exists |-> TRUE, fetched_at |-> toISOString(nowT - d)] : d \in GateElapsed}

GateInit ==
    /\ ProgIdle
    /\ call \in UNION {{[fn |-> "shouldRunNow", now |-> t, existing |-> e,
                         done |-> FALSE, output |-> FALSE] : e \in GateFiles(t)} :
                            t \in GateInstants}

CallShouldRunNow ==
    /\ call.fn = "shouldRunNow" /\ ~call.done
    /\ call' = [call EXCEPT !.done = TRUE,
                            !.output = shouldRunNow(call.now, call.existing)]
    /\ UNCHANGED progVars

GateSpec == GateInit /\ [][CallShouldRunNow]_vars

---------------------------------------------------------------------------
(* Properties of the functions.                                            *)

Range(seq) == {seq[i] : i \in DOMAIN seq}

\* The k-th smallest element of a finite set of integers.
RECURSIVE KthOf(_, _)
KthOf(S, k) == IF k = 1 THEN MinOf(S) ELSE KthOf(S \ {MinOf(S)}, k - 1)

\* out holds exactly the elements of in at the positions of Kept, in order.
IsSubsequenceAt(out, in, Kept) ==
    /\ Len(out) = Cardinality(Kept)
    /\ \A k \in 1..Len(out) : out[k] = in[KthOf(Kept, k)]

StampInstant(s) == DateUTC(s[1], s[2], s[3], s[4], s[5], s[6])

IsStamp(s) == Len(s) = 6

Finished(fn) == call.fn = fn /\ call.done

\* -- C6 --

\* The positions whose snapshot C6 says is kept: captured_at in [now-48h, now].
C6_InClosedWindow(l, nowT) ==
    {i \in DOMAIN l : /\ IsStamp(l[i].fetched_at)
                      /\ StampInstant(l[i].fetched_at) >= nowT - 48 * 3600
                      /\ StampInstant(l[i].fetched_at) <= nowT}

\* The positions kept: a readable captured_at not older than now-48h.
C6_NotExpired(l, nowT) ==
    {i \in DOMAIN l : /\ IsStamp(l[i].fetched_at)
                      /\ StampInstant(l[i].fetched_at) >= nowT - 48 * 3600}

\* C6 as stated: prune(now, 48h) retains exactly the snapshots whose
\* captured_at lies in the closed interval [now-48h, now], in their order;
\* older, later-than-now and unreadable ones are dropped.
C6_RetainsClosedWindow ==
    Finished("pruneSnapshots") =>
        IsSubsequenceAt(call.output, call.snapshots,
                        C6_InClosedWindow(call.snapshots, call.now))

\* C6 as amended: prune(now, 48h) retains exactly the snapshots whose
\* captured_at is readable and not older than now-48h (a captured_at later
\* than now is kept), in their order; older and unreadable ones are dropped.
C6_RetainsNotExpired ==
    Finished("pruneSnapshots") =>
        IsSubsequenceAt(call.output, call.snapshots,
                        C6_NotExpired(call.snapshots, call.now))

\* A pruned log of three that held an expired, an unreadable and a
\* later-than-now snapshot, and kept only the last.
C6_Witness ==
    /\ Finished("pruneSnapshots")
    /\ call.snapshots = <<SnapAt(toISOString(call.now - 48 * 3600 - 1)),
                          SnapAt(Malformed), SnapAt(toISOString(call.now + 1))>>
    /\ call.output = <<SnapAt(toISOString(call.now + 1))>>

\* -- C7 --

C7_Readable(l) == {i \in DOMAIN l : IsStamp(l[i].fetched_at)}

C7_Distance(l, i, targetT) == Abs(StampInstant(l[i].fetched_at) - targetT)

\* C7: nearestSnapshot returns null (0) when the log is empty, when no
\* snapshot has a readable timestamp or when the least distance to the target
\* exceeds the tolerance (a distance equal to it is accepted); otherwise the
\* first snapshot, in log order, of least distance.
C7_NearestIsFirstMinimum ==
    Finished("nearestSnapshot") =>
        LET l    == call.snapshots
            ok   == C7_Readable(l)
            d(i) == C7_Distance(l, i, call.target)
            tol  == call.toleranceMinutes * 60
        IN  IF ok = {} \/ \A i \in ok : d(i) > tol
            THEN call.output = 0
            ELSE /\ call.output \in ok
                 /\ \A i \in ok : d(call.output) <= d(i)
                 /\ \A i \in ok : i < call.output => d(i) > d(call.output)

\* The search returned the second snapshot, at exactly the tolerance, with a
\* farther one before it and one as far after it.
C7_Witness ==
    /\ Finished("nearestSnapshot")
    /\ Len(call.snapshots) = 3
    /\ call.output = 2
    /\ C7_Distance(call.snapshots, 2, call.target) = call.toleranceMinutes * 60
    /\ IsStamp(call.snapshots[3].fetched_at)
    /\ C7_Distance(call.snapshots, 3, call.target) = call.toleranceMinutes * 60
    /\ call.snapshots[3] # call.snapshots[2]

\* -- C8 --

IsOpenIn(m, n) == n \in DOMAIN m /\ m[n] = OPEN

StrictlySorted(seq) == \A i \in 1..(Len(seq) - 1) : TextLess(seq[i], seq[i + 1])

C8_ExamplePrev == [n \in {<<"A">>, <<"B">>} |-> IF n = <<"A">> THEN OPEN ELSE CLOSED]
C8_ExampleCurr == [n \in {<<"A">>, <<"B">>} |-> IF n = <<"A">> THEN CLOSED ELSE OPEN]

\* C8: diffOpens(prev, curr) lists in opened exactly the names open in curr
\* and not open (or absent) in prev, in closed exactly the names open in prev
\* and not open (or absent) in curr, each sorted and without duplicates;
\* diffOpens({A: open, B: closed}, {A: closed, B: open}) is
\* {opened: [B], closed: [A]}.
C8_DiffOpensExact ==
    Finished("diffOpens") =>
        /\ Range(call.output.opened) =
              {n \in DiffNames : IsOpenIn(call.curr, n) /\ ~IsOpenIn(call.prev, n)}
        /\ Range(call.output.closed) =
              {n \in DiffNames : IsOpenIn(call.prev, n) /\ ~IsOpenIn(call.curr, n)}
        /\ StrictlySorted(call.output.opened)
        /\ StrictlySorted(call.output.closed)
        /\ (call.prev = C8_ExamplePrev /\ call.curr = C8_ExampleCurr =>
               call.output = [opened |-> <<(<<"B">>)>>, closed |-> <<(<<"A">>)>>])

\* A diff with two names opened, listed upper case first, and one closed
\* that went on hold.
C8_Witness ==
    /\ Finished("diffOpens")
    /\ call.output.opened = << <<"B">>, <<"a">> >>
    /\ call.output.closed = << <<"A">> >>
    /\ <<"A">> \in DOMAIN call.curr
    /\ call.curr[<<"A">>] = ON_HOLD

\* -- C9 --

\* s holds the word w (lower case) in any case.
ContainsWord(s, w) ==
    \E i \in 1..Len(s) :
        /\ i + Len(w) - 1 <= Len(s)
        /\ \A k \in 1..Len(w) : LowerChar(s[i + k - 1]) = w[k]

\* C9 as stated: every string maps to one of the four statuses; one holding
\* "open" (any case) to open, one holding "hold" to on-hold, one holding
\* "closed" to closed, any other to unknown.
C9_EachWordDecides ==
    Finished("normalizeStatus") =>
        /\ call.output \in Status
        /\ (ContainsWord(call.s, OPEN) => call.output = OPEN)
        /\ (ContainsWord(call.s, HOLD) => call.output = ON_HOLD)
        /\ (ContainsWord(call.s, CLOSED) => call.output = CLOSED)
        /\ (~ContainsWord(call.s, OPEN) /\ ~ContainsWord(call.s, HOLD)
                /\ ~ContainsWord(call.s, CLOSED) => call.output = UNKNOWN)

\* C9 as amended: every string maps to one of the four statuses; one holding
\* "open" (any case) to open; one holding "hold" and not "open" to on-hold;
\* one holding "closed" and neither "open" nor "hold" to closed; any other to
\* unknown.
C9_FirstWordDecides ==
    Finished("normalizeStatus") =>
        /\ call.output \in Status
        /\ (ContainsWord(call.s, OPEN) => call.output = OPEN)
        /\ (ContainsWord(call.s, HOLD) /\ ~ContainsWord(call.s, OPEN)
                => call.output = ON_HOLD)
        /\ (ContainsWord(call.s, CLOSED) /\ ~ContainsWord(call.s, OPEN)
                /\ ~ContainsWord(call.s, HOLD) => call.output = CLOSED)
        /\ (~ContainsWord(call.s, OPEN) /\ ~ContainsWord(call.s, HOLD)
                /\ ~ContainsWord(call.s, CLOSED) => call.output = UNKNOWN)

\* A string holding "Hold" and then "OPEN" was normalised to open.
C9_Witness ==
    /\ Finished("normalizeStatus")
    /\ call.s = <<"H","o","l","d","x"," ","O","P","E","N">>
    /\ call.output = OPEN

\* -- C10 --

\* The hour after the autumn transition, whose local readings 01:00-01:59
\* occurred in the hour before it too.
InRepeatedHour(t) == DstEnd <= t /\ t < DstEnd + 3600

\* C10 as stated: for every instant, zonedTimeToUtc(getTzParts(instant)) is
\* the instant to the minute.
C10_RoundTripEverywhere ==
    Finished("roundTrip") => call.output \div 60 = call.instant \div 60

\* C10 as amended: zonedTimeToUtc(getTzParts(instant)) is the instant to the
\* minute for every instant except those of the first hour of standard time
\* after the autumn transition, for which it is the instant one hour earlier.
C10_RoundTripButRepeatedHour ==
    Finished("roundTrip") =>
        IF InRepeatedHour(call.instant)
        THEN call.output = call.instant - 3600
        ELSE call.output \div 60 = call.instant \div 60

\* An instant of the first hour of daylight time went through the round trip
\* unchanged.
C10_Witness ==
    /\ Finished("roundTrip")
    /\ DstStart <= call.instant /\ call.instant < DstStart + 3600
    /\ call.instant % 60 # 0
    /\ call.output = call.instant

\* -- C4 --

\* The gate as specified: in season (November to May), inside the daily
\* window 05:00 <= local time < 23:00, and either no readable time of a last
\* poll, or a negative elapsed time, or an elapsed time of at least the
\* interval: 5 minutes from 07:50 to 10:30 (excluded), 10 minutes otherwise.
GateAllows(nowT, existing) ==
    LET p        == getTzParts(nowT)
        m        == p.hour * 60 + p.minute
        interval == IF 7 * 60 + 50 <= m /\ m < 10 * 60 + 30 THEN 5 * 60 ELSE 10 * 60
        noPrior  == ~existing.exists \/ ~IsStamp(existing.fetched_at)
    IN  /\ p.month \in {11, 12, 1, 2, 3, 4, 5}
        /\ 5 * 60 <= m /\ m < 23 * 60
        /\ \/ noPrior
           \/ nowT - StampInstant(existing.fetched_at) < 0
           \/ nowT - StampInstant(existing.fetched_at) >= interval

\* C4: the gate lets a poll proceed if and only if the month is in season,
\* the local time is inside 05:00-23:00 and no prior poll time exists or the
\* elapsed time is at least the sub-window's interval; a negative elapsed time
\* or an unreadable prior time never blocks. At 08:00 in season, 4 minutes
\* elapsed block and 6 minutes elapsed allow.
C4_GateOpensIff ==
    Finished("shouldRunNow") =>
        /\ call.output <=> GateAllows(call.now, call.existing)
        /\ (call.now = PST(1, 15, 8, 0, 0) /\ call.existing.exists =>
              /\ call.existing.fetched_at = toISOString(call.now - 4 * 60) => ~call.output
              /\ call.existing.fetched_at = toISOString(call.now - 6 * 60) => call.output)

\* At 08:00 in season the gate opened six minutes after the last poll.
C4_Witness ==
    /\ Finished("shouldRunNow")
    /\ call.now = PST(1, 15, 8, 0, 0)
    /\ call.existing.exists
    /\ call.existing.fetched_at = toISOString(call.now - 6 * 60)
    /\ call.output

---------------------------------------------------------------------------
(* Properties of the runs.                                                 *)

\* -- C1 --

\* C1: over the runs of a behaviour (non-overlapping, clock non-decreasing,
\* history persisted), no de-duplication key has two event records written
\* for it.
C1_OneEventPerKey ==
    \A i, j \in DOMAIN eventLog : i # j => eventLog[i] # eventLog[j]

\* A run found both reference snapshots under the key of the one event
\* written so far, and wrote none.
C1_Witness ==
    /\ Len(eventLog) = 1
    /\ run.outcome = "poll"
    /\ run.eventKey = eventLog[1]
    /\ run.snapToday10 # 0 /\ run.snapYest3 # 0
    /\ ~run.fired

\* -- C2 --

\* The names open in curr and not open (or absent) in prev.
OpenedNames(prev, curr) == {n \in DOMAIN curr : IsOpenIn(curr, n) /\ ~IsOpenIn(prev, n)}

\* Names opened, lifts and trails together, from snapshot from to snapshot to.
OpenedTotal(from, to) ==
    Cardinality(OpenedNames(from.lifts, to.lifts))
        + Cardinality(OpenedNames(from.trails, to.trails))

ClosedTotal(from, to) == OpenedTotal(to, from)

\* C2: a run that polls writes an event record and sets last_event_key and
\* last_event_created_at if and only if it found a snapshot near today's
\* 10:00 and one near yesterday's 15:00, its key differs from the stored
\* last_event_key, and the opened total or the closed total is at least 3;
\* the record's opened_total and closed_total are those totals. Otherwise it
\* writes no event record and leaves the metadata as it was. Either way it
\* ends without error.
C2_FiresIffSignificant ==
    [][polls' = polls + 1 =>
        LET oldMeta == LoadHistory(historyFile).meta
            snaps   == historyFile'.snapshots
            found   == run'.snapToday10 # 0 /\ run'.snapYest3 # 0
            opened  == OpenedTotal(snaps[run'.snapYest3], snaps[run'.snapToday10])
            closed  == ClosedTotal(snaps[run'.snapYest3], snaps[run'.snapToday10])
            fires   == /\ found
                       /\ run'.eventKey # oldMeta.last_event_key
                       /\ (opened >= 3 \/ closed >= 3)
        IN  /\ run'.outcome = "poll"
            /\ fires =>
                  /\ eventFile'.exists
                  /\ eventFile'.key = run'.eventKey
                  /\ eventFile'.summary.opened_total = opened
                  /\ eventFile'.summary.closed_total = closed
                  /\ eventLog' = Append(eventLog, run'.eventKey)
                  /\ historyFile'.meta =
                        [last_event_key |-> run'.eventKey,
                         last_event_created_at |-> eventFile'.created_at]
            /\ ~fires =>
                  /\ eventFile' = eventFile
                  /\ eventLog' = eventLog
                  /\ historyFile'.meta = oldMeta
    ]_vars

\* A run wrote an event record for three names opened and none closed.
C2_Witness ==
    /\ run.outcome = "poll"
    /\ run.fired
    /\ eventFile.exists
    /\ eventFile.key = run.eventKey
    /\ eventFile.summary.opened_total = 3
    /\ eventFile.summary.closed_total = 0

\* -- C3 --

\* C3: a run that polls and computes the key stored in last_event_key writes
\* no event record and leaves last_event_key and last_event_created_at as
\* they were, whatever the snapshots hold.
C3_SameKeyNoEvent ==
    [][(/\ polls' = polls + 1
        /\ historyFile.exists
        /\ historyFile.meta.last_event_key = run'.eventKey) =>
            /\ eventFile' = eventFile
            /\ eventLog' = eventLog
            /\ historyFile'.meta = historyFile.meta
    ]_vars

\* After the event of its key a run polled statuses that differ from those
\* of the morning reference, and left the metadata.
C3_Witness ==
    /\ run.outcome = "poll"
    /\ run.alreadyFired
    /\ historyFile.meta.last_event_key = run.eventKey
    /\ run.snapToday10 # 0
    /\ statusFile.lifts # historyFile.snapshots[run.snapToday10].lifts

\* -- C5 --

\* C5: a run whose gate is closed (out of season, outside 05:00-23:00, or
\* interval not elapsed) exits successfully without polling and leaves the
\* current-status record, the history and the event record as they were.
C5_ClosedGateChangesNothing ==
    [][~GateAllows(run'.started, statusFile) =>
            /\ run'.outcome = "skip"
            /\ statusFile' = statusFile
            /\ historyFile' = historyFile
            /\ eventFile' = eventFile
            /\ eventLog' = eventLog
            /\ polls' = polls
    ]_vars

\* A run in June, hours after the last poll, was skipped.
C5_Witness ==
    /\ run.outcome = "skip"
    /\ getTzParts(run.started).month = 6
    /\ statusFile.exists
    /\ run.started - StampInstant(statusFile.fetched_at) > 3600

\* -- C11 --

\* C11: a run whose fetch gets a non-success response ends with an error
\* and writes nothing: the current-status record, the history and the event
\* record are after the run what they were before it.
C11_FetchFailureWritesNothing ==
    [][(run' # run /\ run'.outcome = "error") =>
            /\ statusFile' = statusFile
            /\ historyFile' = historyFile
            /\ eventFile' = eventFile
            /\ eventLog' = eventLog
            /\ polls' = polls
    ]_vars

\* A run failed at its fetch after earlier runs had written the three files.
C11_Witness ==
    /\ run.outcome = "error"
    /\ statusFile.exists /\ historyFile.exists /\ eventFile.exists
    /\ run.started > StampInstant(statusFile.fetched_at)

---------------------------------------------------------------------------
(* Properties of the pipeline: poller, placeholders, publisher.            *)

\* A step of a run of the poller (a run that repeats the latest run's
\* outcome at the same instant changes nothing and is no step).
PollerStep == run' # run

\* The placeholders as fetch-status.mjs writes them.
UnsetPlaceholders ==
    [screenshot_path |-> <<>>, instagram_posted |-> FALSE,
     instagram_post_id |-> <<>>, caption |-> <<>>]

PlaceholderNames == {"screenshot_path", "instagram_posted", "instagram_post_id", "caption"}

\* -- C12 --

\* C12 as stated: no run of the poller changes a placeholder of event.json
\* that holds a value other than the one the poller writes (null, false).
C12_PollKeepsEverySetPlaceholder ==
    [][(PollerStep /\ eventFile.exists) =>
            /\ eventFile'.exists
            /\ \A n \in PlaceholderNames :
                    eventFile.placeholders[n] # UnsetPlaceholders[n] =>
                        eventFile'.placeholders[n] = eventFile.placeholders[n]
    ]_vars

\* C12, amended: every event record a run of the poller writes has its four
\* placeholders unset (null, null, null and false), and a run of the poller
\* that writes no event record leaves event.json, placeholders included, as
\* it was; only a run that fires a new event replaces the record, and with
\* it the placeholders set in the record before.
C12_PollKeepsPlaceholdersUnlessNewEvent ==
    [][PollerStep =>
            IF run'.outcome = "poll" /\ run'.fired
            THEN /\ eventFile'.key = run'.eventKey
                 /\ eventFile'.placeholders = UnsetPlaceholders
            ELSE eventFile' = eventFile
    ]_vars

\* The first event was published, then a run fired the second event: the
\* record of the second event is in event.json with unset placeholders.
C12_Witness ==
    /\ Len(eventLog) = 2
    /\ publishLog = <<eventLog[1]>>
    /\ eventFile.exists
    /\ eventFile.key = eventLog[2]
    /\ eventFile.placeholders = UnsetPlaceholders
    /\ run.outcome = "poll" /\ run.fired

\* A step of a run of the publisher.
PublisherStep == pub' # pub

\* The reasons of a failed run that the Graph API gives.
PlatformFailures == {"create", "status", "container", "timeout", "publish"}

\* -- C13 --

\* C13: a run of the publisher that fails (a non-success response to the
\* container creation, to a status query or to the publish call, a container
\* status ERROR, a timeout) leaves event.json as it was, instagram_posted
\* false; and a run of the publisher changes event.json only at its end,
\* after media_publish succeeded, and then only instagram_posted (to true)
\* and instagram_post_id.
C13_FailedPublishKeepsRecord ==
    [][PublisherStep =>
            /\ pub'.outcome = "error" => eventFile' = eventFile
            /\ pub'.reason \in PlatformFailures =>
                    /\ eventFile'.exists
                    /\ ~eventFile'.placeholders.instagram_posted
            /\ eventFile' # eventFile =>
                    /\ pub.pc = "publishing"
                    /\ pub'.outcome = "posted"
                    /\ eventFile'.placeholders.instagram_posted
                    /\ eventFile' =
                          [eventFile EXCEPT
                              !.placeholders.instagram_posted = TRUE,
                              !.placeholders.instagram_post_id =
                                  eventFile'.placeholders.instagram_post_id]
    ]_vars

\* A run failed at the publish call; the record has its caption and is not
\* marked as posted.
C13_Witness ==
    /\ pub.outcome = "error" /\ pub.reason = "publish"
    /\ eventFile.exists
    /\ eventFile.placeholders.caption # <<>>
    /\ ~eventFile.placeholders.instagram_posted
    /\ eventFile.placeholders.instagram_post_id = <<>>

\* -- C14 --

\* C14: once event.json has instagram_posted = true, a run of the publisher
\* makes no request (no container creation, no publish) and leaves the
\* record as it is; and no event (key) is published by more than one run.
C14_PostedRecordNotPublishedAgain ==
    [][/\ (PublisherStep /\ eventFile.exists
                         /\ eventFile.placeholders.instagram_posted) =>
            /\ pub'.pc = "idle"
            /\ pub'.calls = {}
            /\ eventFile' = eventFile
            /\ publishLog' = publishLog
       /\ publishLog' # publishLog =>
            \A i \in DOMAIN publishLog : publishLog[i] # publishLog'[Len(publishLog')]
    ]_vars

\* A run found the record published by an earlier run, and skipped.
C14_Witness ==
    /\ pub.outcome = "skip" /\ pub.reason = "posted"
    /\ eventFile.exists
    /\ eventFile.placeholders.instagram_posted
    /\ publishLog = <<eventFile.key>>

\* -- C19 --

\* C19: the status loop of the publisher ends. A turn of the loop leads to
\* the publish call only with the status FINISHED read; it stays in the loop
\* only with a status other than FINISHED and ERROR read and no more than
\* the 2 minutes elapsed since the loop began, 5 seconds later than the turn
\* before; otherwise (ERROR, more than 2 minutes without FINISHED, or a
\* non-success response) the run fails without a publish call and leaves
\* event.json as it was. The publish call is made by no other step. Every
\* run that started comes to its end.
C19_StatusLoopEnds ==
    /\ [][/\ (PublisherStep /\ pub.pc = "polling") =>
               /\ pub'.pc = "publishing" => pub'.status = "FINISHED"
               /\ pub'.pc = "polling" =>
                       /\ pub'.status \notin {"FINISHED", "ERROR"}
                       /\ pub'.elapsed - SleepSeconds <= maxWaitMs
                       /\ pub'.elapsed >= pub.elapsed + SleepSeconds
               /\ pub'.pc = "idle" =>
                       /\ pub'.outcome = "error"
                       /\ "publish" \notin pub'.calls
                       /\ eventFile' = eventFile
                       /\ publishLog' = publishLog
          /\ (PublisherStep /\ "publish" \in pub'.calls) =>
               /\ pub.pc = "publishing"
               /\ pub.status = "FINISHED"
        ]_vars
    /\ (pub.pc # "idle") ~> (pub.pc = "idle")

\* A run ended by the timeout of its status loop, the record unpublished.
C19_Witness ==
    /\ pub.outcome = "error" /\ pub.reason = "timeout"
    /\ pub.calls = {"create", "status"}
    /\ eventFile.exists
    /\ ~eventFile.placeholders.instagram_posted

---------------------------------------------------------------------------
(* Properties of the runs: the reference snapshots.                        *)

\* A step of a run that polled.
PolledStep == polls' = polls + 1

\* Today's 10:00 and yesterday's 15:00, local, for a run whose now is nowT.
Target10amToday(nowT) == TargetInstant(getTzParts(nowT), 10)

Target3pmYesterday(nowT) == TargetInstant(getTzParts(nowT - 24 * 60 * 60), 15)

\* Seconds between the capture of snapshot s and target.
DistanceTo(s, target) == Abs(StampInstant(s.fetched_at) - target)

\* -- C15 --

\* C15 as stated: in a run that captures its snapshot within 90 minutes of
\* today's 10:00 local, with no other snapshot of the persisted log closer
\* to that target, the snapshot just captured is the morning reference.
C15_OwnSnapshotWhenNoneCloser ==
    [][PolledStep =>
        LET snaps  == historyFile'.snapshots
            last   == Len(snaps)
            target == Target10amToday(StampInstant(statusFile'.fetched_at))
        IN  (/\ DistanceTo(snaps[last], target) <= 90 * 60
             /\ \A i \in 1..(last - 1) :
                    DistanceTo(snaps[i], target) >= DistanceTo(snaps[last], target))
                => run'.snapToday10 = last
    ]_vars

\* C15, amended: in a run that captures its snapshot within 90 minutes of
\* today's 10:00 local, with every other snapshot of the log farther from
\* that target, the snapshot just captured (appended before the search) is
\* the morning reference; of snapshots equally near, the search takes the
\* earliest.
C15_OwnSnapshotWhenOthersFarther ==
    [][PolledStep =>
        LET snaps  == historyFile'.snapshots
            last   == Len(snaps)
            target == Target10amToday(StampInstant(statusFile'.fetched_at))
        IN  /\ snaps[last].fetched_at = statusFile'.fetched_at
            /\ (/\ DistanceTo(snaps[last], target) <= 90 * 60
                /\ \A i \in 1..(last - 1) :
                       DistanceTo(snaps[i], target) > DistanceTo(snaps[last], target))
                   => run'.snapToday10 = last
            /\ (/\ DistanceTo(snaps[last], target) <= 90 * 60
                /\ \E i \in 1..(last - 1) :
                       DistanceTo(snaps[i], target) = DistanceTo(snaps[last], target))
                   => run'.snapToday10 < last
    ]_vars

\* A run took its own snapshot, the latest of several in the log, as the
\* morning reference.
C15_Witness ==
    /\ run.outcome = "poll"
    /\ Len(historyFile.snapshots) >= 2
    /\ run.snapToday10 = Len(historyFile.snapshots)
    /\ historyFile.snapshots[run.snapToday10].fetched_at = statusFile.fetched_at

\* -- C16 --

\* C16: in every event record, the capture of the morning reference
\* (compare.to) is within 90 minutes of 10:00 local of the day the record was
\* created, and the capture of the afternoon reference (compare.from) within
\* 90 minutes of 15:00 local of the day before.
C16_ReferencesWithin90Minutes ==
    eventFile.exists =>
        LET created == StampInstant(eventFile.created_at)
        IN  /\ Abs(StampInstant(eventFile.compare.to.fetched_at)
                       - Target10amToday(created)) <= 90 * 60
            /\ Abs(StampInstant(eventFile.compare.from.fetched_at)
                       - Target3pmYesterday(created)) <= 90 * 60

\* -- C17 --

\* The log a run prunes: the persisted snapshots and the run's own.
Unpruned == Append(LoadHistory(historyFile).snapshots, SnapshotOf(statusFile'))

\* C17: in every run that polls, pruning removes no snapshot within 90
\* minutes of today's 10:00 local or within the tolerance (the code's 300
\* minutes, hence also 90) of yesterday's 15:00 local; the reference
\* snapshots the run finds are those it would find in the unpruned log.
C17_PruningKeepsReferences ==
    [][PolledStep =>
        LET nowT  == StampInstant(statusFile'.fetched_at)
            all   == Unpruned
            kept  == historyFile'.snapshots
            am    == nearestSnapshot(all, Target10amToday(nowT), 90)
            pm    == nearestSnapshot(all, Target3pmYesterday(nowT), 300)
        IN  /\ \A i \in DOMAIN all :
                    (\/ DistanceTo(all[i], Target10amToday(nowT)) <= 90 * 60
                     \/ DistanceTo(all[i], Target3pmYesterday(nowT)) <= 300 * 60)
                        => all[i] \in Range(kept)
            /\ am # 0 => (run'.snapToday10 # 0 /\ kept[run'.snapToday10] = all[am])
            /\ pm # 0 => (run'.snapYest3 # 0 /\ kept[run'.snapYest3] = all[pm])
    ]_vars

\* A run pruned the log (it holds fewer snapshots than runs have polled)
\* and found both references.
C17_Witness ==
    /\ run.outcome = "poll"
    /\ historyFile.exists
    /\ Len(historyFile.snapshots) < polls
    /\ run.snapToday10 # 0 /\ run.snapYest3 # 0

\* -- C18 --

\* C18: pruning a log that pruneSnapshots returned, at the same now, returns
\* it unchanged; and the log a run that polls persists is such a log: each
\* of its snapshots has a parseable timestamp not older than 48 hours at the
\* run's now, and its last snapshot is the one the run captured.
C18_PruneIdempotentLogFresh ==
    [][/\ (call'.fn = "pruneSnapshots" /\ call'.done) =>
            pruneSnapshots(call'.output, call'.now) = call'.output
       /\ PolledStep =>
            LET snaps == historyFile'.snapshots
                nowT  == StampInstant(statusFile'.fetched_at)
            IN  /\ pruneSnapshots(snaps, nowT) = snaps
                /\ \A i \in DOMAIN snaps :
                        /\ IsStamp(snaps[i].fetched_at)
                        /\ StampInstant(snaps[i].fetched_at) >= nowT - 48 * 60 * 60
                /\ snaps # <<>>
                /\ snaps[Len(snaps)] = SnapshotOf(statusFile')
    ]_vars

\* A run persisted a log from which it had pruned a snapshot; the log ends
\* with the run's own snapshot.
C18_Witness ==
    /\ run.outcome = "poll"
    /\ historyFile.exists
    /\ Len(historyFile.snapshots) < polls
    /\ historyFile.snapshots[Len(historyFile.snapshots)].fetched_at = statusFile.fetched_at
    /\ pruneSnapshots(historyFile.snapshots, StampInstant(statusFile.fetched_at))
            = historyFile.snapshots

---------------------------------------------------------------------------
(* Properties of the runs: the spacing of the polls.                       *)

\* -- C20 --

\* The interval of the sub-window at instant t in seconds, 0 where the gate
\* is closed whatever the last poll.
IntervalAt(t) ==
    LET i == getMinIntervalMs(getVancouverParts(t)) IN IF i = <<>> THEN 0 ELSE i[1]

\* The gate is closed at t whatever the last poll: out of season or outside
\* 05:00-23:00 local.
OutOfHours(t) == getMinIntervalMs(getVancouverParts(t)) = <<>>

\* C20 as stated: the snapshot of a run that polls is captured at least the
\* interval of the run's sub-window (5 minutes from 07:50 to 10:30 local, 10
\* minutes otherwise) after the snapshot of the poll before, and it is
\* captured in season and inside 05:00-23:00 local.
C20_SpacedAndCapturedInHours ==
    [][PolledStep =>
        LET f == StampInstant(statusFile'.fetched_at)
        IN  /\ statusFile.exists =>
                    f - StampInstant(statusFile.fetched_at) >= IntervalAt(run'.started)
            /\ ~OutOfHours(f)
    ]_vars

\* C20, amended: the snapshot of a run that polls is captured at least the
\* interval of the sub-window at the run's gate (5 minutes from 07:50 to
\* 10:30 local, 10 minutes otherwise) after the snapshot of the poll before,
\* and the run passed its gate in season and inside 05:00-23:00 local; the
\* capture follows the fetch, not earlier than the gate, and may fall after
\* 23:00.
C20_SpacedAndGatedInHours ==
    [][PolledStep =>
        LET f == StampInstant(statusFile'.fetched_at)
        IN  /\ statusFile.exists =>
                    /\ f - StampInstant(statusFile.fetched_at) >= IntervalAt(run'.started)
                    /\ IntervalAt(run'.started) \in {5 * 60, 10 * 60}
            /\ ~OutOfHours(run'.started)
            /\ f >= run'.started
    ]_vars

\* A run passed the gate before 23:00 and captured its snapshot after 23:00,
\* hours after the poll before.
C20_Witness ==
    /\ run.outcome = "poll"
    /\ getVancouverParts(run.started).hour = 22
    /\ getVancouverParts(StampInstant(statusFile.fetched_at)).hour = 23
    /\ Len(historyFile.snapshots) >= 2

---------------------------------------------------------------------------
(* Properties of the runs: the two days of a comparison.                   *)

\* -- C21 --

\* The day number of the date of parts.
DayNumber(parts) == DaysFromCivil(parts.year, parts.month, parts.day)

\* C21: in every run that passes the gate and polls, the local date of now
\* minus 24 hours is the day before the local date of now, the key pairs
\* these two dates, and the event record the run writes, if any, has its
\* afternoon reference (from) captured strictly before its morning
\* reference (to).
C21_YesterdayIsTheDayBefore ==
    [][PolledStep =>
        LET nowT      == StampInstant(statusFile'.fetched_at)
            today     == getTzParts(nowT)
            yesterday == getTzParts(nowT - 24 * 60 * 60)
        IN  /\ DayNumber(today) - DayNumber(yesterday) = 1
            /\ run'.eventKey = EventKeyOf(today, yesterday)
            /\ run'.fired =>
                    StampInstant(eventFile'.compare.from.fetched_at)
                        < StampInstant(eventFile'.compare.to.fetched_at)
    ]_vars

\* The part of C21 about the event record alone: its afternoon reference is
\* captured strictly before its morning reference.
C21_FromBeforeTo ==
    eventFile.exists =>
        StampInstant(eventFile.compare.from.fetched_at)
            < StampInstant(eventFile.compare.to.fetched_at)

---------------------------------------------------------------------------
(* Properties of the pipeline: the event record and the history.           *)

\* -- C22 --

\* The history names an event, and event.json holds that event, created at
\* the instant the history records.
HistoryAgreesWithEvent(history, event) ==
    (history.exists /\ history.meta.last_event_key # <<>>) =>
        /\ event.exists
        /\ event.key = history.meta.last_event_key
        /\ event.created_at = history.meta.last_event_created_at

\* C22: after every run of the poller, every step of the publisher and
\* every filling of the placeholders, whenever the history has a
\* last_event_key, event.json holds the event of that key and
\* last_event_created_at is that event's created_at; and a step of the
\* publisher leaves the key, created_at, compare, summary and details of the
\* event record as they were.
C22_HistoryNamesTheEventOnFile ==
    [][/\ HistoryAgreesWithEvent(historyFile', eventFile')
       /\ (PublisherStep /\ eventFile.exists) =>
            /\ eventFile'.exists
            /\ eventFile'.key = eventFile.key
            /\ eventFile'.created_at = eventFile.created_at
            /\ eventFile'.compare = eventFile.compare
            /\ eventFile'.summary = eventFile.summary
            /\ eventFile'.details = eventFile.details
    ]_vars

\* The event the history names was published: event.json holds it, marked
\* as posted by the latest run of the publisher.
C22_Witness ==
    /\ pub.outcome = "posted"
    /\ historyFile.exists
    /\ historyFile.meta.last_event_key # <<>>
    /\ eventFile.exists
    /\ eventFile.key = historyFile.meta.last_event_key
    /\ eventFile.created_at = historyFile.meta.last_event_created_at
    /\ eventFile.placeholders.instagram_posted
    /\ publishLog # <<>>

=============================================================================
